---- MODULE Spec2Model ----
(***************************************************************************)
(* A model of dobot-python: the frame codec (message.py), the transport    *)
(* session (Interface.send, interface.py) and the blocking queue wait      *)
(* (Dobot.wait, dobot.py), with the device's instruction queue as the      *)
(* environment.                                                            *)
(*                                                                         *)
(* Python values are represented as follows.  A list or bytes object of    *)
(* bytes is a sequence of integers.  An Optional[int] is <<>> for None and *)
(* <<v>> for the integer v.  A result that may be an exception or None is  *)
(* a record with a "tag" field.                                            *)
(***************************************************************************)
EXTENDS Integers, Sequences, FiniteSets, TLC

(***************************************************************************)
(* Bounds of the model.                                                    *)
(***************************************************************************)
\* longest parameter byte sequence drawn from SampleBytes
MaxLen == 2
\* instructions the client may enqueue before it calls Dobot.wait
MaxPending == 2
\* largest explicit queue_index argument of Dobot.wait, largest start index
MaxIndex == 2
\* poll cycles of Dobot.wait the model follows
MaxPolls == 3
\* largest N of the simulated device (poll cycles before it advances)
MaxN == 2
\* threads calling Interface.send, and the send calls they make in total
NumThreads == 2
MaxCalls == 3
\* points of a path given to follow_path
MaxPath == 2
\* send calls made one after the other on a line with late answers
MaxSends == 3

(***************************************************************************)
(* Program constants.                                                      *)
(***************************************************************************)
\* sum(payload) % 256
Modulus == 256
\* the header byte 0xAA
Magic == 170
\* Message(..., 2, ...): the length every Interface method passes
InitLength == 2
\* command ids
IdPTP == 84
IdWait == 110
IdStartQueue == 240
IdStopQueue == 241
IdForceStopQueue == 242
IdClearQueue == 245
IdQueueIndex == 246
IdCT == 91

Byte == 0 .. (Modulus - 1)
SampleBytes == {0, 1, 255}
SampleIds == {0, IdPTP, IdWait, IdQueueIndex, 255}

RECURSIVE SeqsUpTo(_, _)
SeqsUpTo(S, n) ==
    IF n = 0 THEN {<<>>}
    ELSE LET shorter == SeqsUpTo(S, n - 1)
         IN  shorter \cup {Append(s, x) : s \in {t \in shorter : Len(t) = n - 1}, x \in S}

ParamSeqs == SeqsUpTo(SampleBytes, MaxLen)

\* parameter sequences at the edge of what one length byte can announce
LongSeqs == {[i \in 1 .. n |-> 0] : n \in {Modulus - 3, Modulus - 2}}

None == <<>>
Some(v) == <<v>>

B2I(b) == IF b THEN 1 ELSE 0

\* Python sum(s), summed by halves
RECURSIVE Sum(_)
Sum(s) ==
    IF Len(s) = 0 THEN 0
    ELSE IF Len(s) = 1 THEN s[1]
    ELSE LET h == Len(s) \div 2
         IN  Sum(SubSeq(s, 1, h)) + Sum(SubSeq(s, h + 1, Len(s)))

\* Python slice s[a:b] with 0 <= a, in 1-based positions a+1 .. b
Slice(s, a, b) == IF b <= a THEN <<>> ELSE SubSeq(s, a + 1, b)

(***************************************************************************)
(* message.py                                                              *)
(***************************************************************************)

\* a wrong checksum: the final reduction is missing
calculate_checksum_noreduce(payload) ==
    LET r == Sum(payload) % Modulus
    IN  Modulus - r

calculate_checksum(payload) ==
    LET r == Sum(payload) % Modulus
        check_byte == (Modulus - r) % Modulus
    IN  check_byte

verify_checksum(payload, checksum) ==
    LET a == Sum(payload) % Modulus
    IN  (a + checksum) % Modulus = 0

\* parsers[id]: the descriptor of a command, a sequence of four slots
\* <<Read, ImmediateWrite, QueuedWrite, OutgoingEncode>>, each the name of
\* the registered codec or "none"; <<>> when the table has no descriptor.
parsers(id) ==
    CASE id = IdPTP        -> <<"Read", "ImmediateWrite", "QueuedWrite", "OutgoingEncode">>
      [] id = IdWait       -> <<"none", "none", "QueuedWrite", "OutgoingEncode">>
      [] id = IdQueueIndex -> <<"Read", "none", "none", "none">>
      [] id \in {IdStartQueue, IdStopQueue, IdForceStopQueue, IdClearQueue}
                           -> <<"none", "none", "none", "none">>
      [] id = 0            -> <<"Read", "none", "none", "none">>
      [] OTHER             -> <<>>

\* the value a codec returns: which codec ran, on which bytes
Decoded(codec, bytes) == [tag |-> "decoded", codec |-> codec, raw |-> bytes]
PyNone == [tag |-> "None"]
PyEmpty == [tag |-> "empty"]

\* a dispatch that gives every frame with rw=0 to the Read codec
parse_params_in_readany(id, rw, is_queued, raw_params) ==
    LET message_parsers == parsers(id)
        parser == CASE (~rw)                 -> message_parsers[1]
                    [] rw /\ (~is_queued)    -> message_parsers[1]
                    [] rw /\ is_queued       -> message_parsers[3]
    IN  IF message_parsers = <<>> THEN PyNone
        ELSE IF parser = "none" THEN PyEmpty
        ELSE Decoded(parser, raw_params)

\* a dispatch that answers [] also when the command has no descriptor
parse_params_in_sameempty(id, rw, is_queued, raw_params) ==
    LET message_parsers == parsers(id)
        parser == CASE (~rw) /\ (~is_queued) -> message_parsers[1]
                    [] rw /\ (~is_queued)    -> message_parsers[1]
                    [] rw /\ is_queued       -> message_parsers[3]
                    [] OTHER                 -> "none"
    IN  IF message_parsers = <<>> THEN PyEmpty
        ELSE IF parser = "none" THEN PyEmpty
        ELSE Decoded(parser, raw_params)

\* a role dispatch that gives an immediate write its own slot
parse_params_in_ownslot(id, rw, is_queued, raw_params) ==
    LET message_parsers == parsers(id)
        parser == CASE (~rw) /\ (~is_queued) -> message_parsers[1]
                    [] rw /\ (~is_queued)    -> message_parsers[2]
                    [] rw /\ is_queued       -> message_parsers[3]
                    [] OTHER                 -> "none"
    IN  IF message_parsers = <<>> THEN PyNone
        ELSE IF parser = "none" THEN PyEmpty
        ELSE Decoded(parser, raw_params)

\* Message.parse_params(IODirection.IN)
parse_params_in(id, rw, is_queued, raw_params) ==
    LET message_parsers == parsers(id)
        parser == CASE (~rw) /\ (~is_queued) -> message_parsers[1]
                    [] rw /\ (~is_queued)    -> message_parsers[1]
                    [] rw /\ is_queued       -> message_parsers[3]
                    [] OTHER                 -> "none"
    IN  IF message_parsers = <<>> THEN PyNone
        ELSE IF parser = "none" THEN PyEmpty
        ELSE Decoded(parser, raw_params)

\* Message.__init__ with direction IN: the object's fields
MessageIn(header, length, id, rw, is_queued, params) ==
    [header |-> header, length |-> length, id |-> id, rw |-> rw,
     is_queued |-> is_queued, raw_params |-> params,
     params |-> parse_params_in(id, rw, is_queued, params)]

\* a control byte with the two flag bits swapped
Control_swapped(rw, is_queued) == 2 * B2I(rw) + B2I(is_queued)

\* int("000000" + str(int(is_queued)) + str(int(rw)), 2)
Control(rw, is_queued) == 2 * B2I(is_queued) + B2I(rw)

\* a package that writes the length the constructor was given
PackageList_givenlength(m) ==
    LET length == m.length
        control == Control(m.rw, m.is_queued)
        checksum == calculate_checksum(<<m.id, control>> \o m.raw_params)
    IN  m.header \o <<length>> \o <<m.id>> \o <<control>> \o m.raw_params \o <<checksum>>

\* the bytes Message.package assembles, before bytes() checks them
PackageList(m) ==
    LET length == 2 + Len(m.raw_params)
        control == Control(m.rw, m.is_queued)
        checksum == calculate_checksum(<<m.id, control>> \o m.raw_params)
    IN  m.header \o <<length>> \o <<m.id>> \o <<control>> \o m.raw_params \o <<checksum>>

\* Message.package: bytes(...) raises ValueError unless every item is a byte
package(m) ==
    LET result == PackageList(m)
    IN  IF \A i \in 1 .. Len(result) : result[i] \in Byte
        THEN [tag |-> "bytes", val |-> result]
        ELSE [tag |-> "ValueError"]

\* a parse that skips the checksum verification
parse_noverify(message) ==
    LET id == message[4]
        control == message[5]
    IN  IF Len(message) < 5 THEN [tag |-> "IndexError"]
        ELSE [tag |-> "Message",
              msg |-> MessageIn(Slice(message, 0, 2), message[3], id,
                                control % 2 = 1, (control \div 2) % 2 = 1,
                                Slice(message, 5, Len(message) - 1))]

\* Message.parse: bytes[3] or bytes[4] raises IndexError on a short message
parse(message) ==
    LET header == Slice(message, 0, 2)
        length == message[3]
        id == message[4]
        control == message[5]
        rw == (control % 2) = 1
        is_queued == ((control \div 2) % 2) = 1
        params == Slice(message, 5, Len(message) - 1)
        checksum == message[Len(message)]
        verified == verify_checksum(<<id>> \o <<control>> \o params, checksum)
    IN  IF Len(message) < 5 THEN [tag |-> "IndexError"]
        ELSE IF verified
        THEN [tag |-> "Message", msg |-> MessageIn(header, length, id, rw, is_queued, params)]
        ELSE PyNone

\* the OutgoingEncode codec: every integer parameter packed as four
\* little-endian bytes
RECURSIVE Encode(_)
Encode(params) ==
    IF params = <<>> THEN <<>>
    ELSE LET v == Head(params)
         IN  <<v % Modulus, (v \div Modulus) % Modulus,
               (v \div (Modulus * Modulus)) % Modulus,
               (v \div (Modulus * Modulus * Modulus)) % Modulus>> \o Encode(Tail(params))

\* Message.parse_params(IODirection.OUT): the raw parameter bytes of a request
parse_params_out(id, rw, params) ==
    LET message_parsers == parsers(id)
        parser == IF rw THEN message_parsers[4] ELSE "none"
    IN  IF message_parsers = <<>> THEN <<>>
        ELSE IF parser = "none" THEN <<>>
        ELSE Encode(params)

\* Message.__init__ with direction OUT
MessageOut(header, length, id, rw, is_queued, params) ==
    [header |-> header, length |-> length, id |-> id, rw |-> rw,
     is_queued |-> is_queued, raw_params |-> parse_params_out(id, rw, params),
     params |-> params]

Take(s, n) == IF n >= Len(s) THEN s ELSE SubSeq(s, 1, n)
Drop(s, n) == IF n >= Len(s) THEN <<>> ELSE SubSeq(s, n + 1, Len(s))

\* a read that looks at the checksum byte and leaves it on the line
read_keepchecksum(s) ==
    LET header == Take(s, 2)
        s1 == Drop(s, 2)
        lenbytes == Take(s1, 1)
        s2 == Drop(s1, 1)
        length == IF lenbytes = <<>> THEN 0 ELSE lenbytes[1]
        payload == Take(s2, length)
        s3 == Drop(s2, length)
        checksum == Take(s3, 1)
    IN  IF header # <<Magic, Magic>>
        THEN [result |-> PyNone, rest |-> s1]
        ELSE [result |-> parse(header \o <<length>> \o payload \o checksum), rest |-> s3]

\* a read that takes the length byte together with the header
read_lengthfirst(s) ==
    LET header == Take(s, 2)
        s1 == Drop(s, 2)
        lenbytes == Take(s1, 1)
        s2 == Drop(s1, 1)
        length == IF lenbytes = <<>> THEN 0 ELSE lenbytes[1]
        payload == Take(s2, length)
        s3 == Drop(s2, length)
        checksum == Take(s3, 1)
        s4 == Drop(s3, 1)
    IN  IF header # <<Magic, Magic>>
        THEN [result |-> PyNone, rest |-> s2]
        ELSE [result |-> parse(header \o <<length>> \o payload \o checksum), rest |-> s4]

\* Message.read(serial): serial.read(n) yields the next n bytes of the
\* stream, fewer when the stream ends first (the read times out).  The value
\* is the result and what is left of the stream.
read(s) ==
    LET header == Take(s, 2)
        s1 == Drop(s, 2)
        lenbytes == Take(s1, 1)
        s2 == Drop(s1, 1)
        length == IF lenbytes = <<>> THEN 0 ELSE lenbytes[1]
        payload == Take(s2, length)
        s3 == Drop(s2, length)
        checksum == Take(s3, 1)
        s4 == Drop(s3, 1)
    IN  IF header # <<Magic, Magic>>
        THEN [result |-> PyNone, rest |-> s1]
        ELSE [result |-> parse(header \o <<length>> \o payload \o checksum), rest |-> s4]

\* Interface.send, lines 48-51: what send hands back for a read result; an
\* exception raised by the read propagates
SendResult(response) ==
    IF response.tag = "Message" THEN [tag |-> "value", val |-> response.msg.params]
    ELSE response

(***************************************************************************)
(* State.                                                                  *)
(***************************************************************************)
VARIABLES
    \* Dobot.wait (dobot.py) and the device's instruction queue
    pc,           \* position of the client: "idle", "noop", "baseline", "poll", "sleep", "returned", "raised"
    arg,          \* the queue_index argument of the call (None or Some(k))
    queue_index,  \* the local queue_index: the target polled against
    index,        \* the local index: the answer to the latest poll query
    polls,        \* poll queries issued, counted up to MaxPolls
    sent,         \* the frames the client wrote, as <<command id, control>>
    devCur,       \* the device's current queue index
    devLast,      \* the index of the last instruction the device was given
    lastBefore,   \* devLast when Dobot.wait was called
    simN,         \* simulated device: poll cycles before it advances
    simV,         \* simulated device: the index it starts at
    \* Interface.send called from several threads (interface.py)
    lockOwner,    \* the thread holding self.lock, 0 when free
    tpc,          \* position of each thread in send
    treq,         \* the frame each thread is sending
    woff,         \* bytes of it written so far
    calls,        \* send calls each thread has begun
    wire,         \* everything written to and read from the serial line, in order
    lockOrder,    \* the send calls in the order they acquired the lock
    tresult,      \* what the latest send of each thread returned
    tresp,        \* what the line delivered to the latest read of each thread
    \* Message.package / Message.parse on one message (message.py)
    mobj,         \* the Message object
    packed,       \* what package returned
    parsed,       \* what parse returned
    cstage,       \* "off", "new", "packaged", "corrupted", "parsed"
    corrupt,      \* None, or <<position, new byte>> of the one byte changed
    \* Message.read on a stream (message.py)
    stream,       \* the bytes the serial line still delivers before it times out
    rpc,          \* "off", "ready", "read", "done"
    rframe,       \* the frame the device sent
    rcut,         \* how many of its bytes arrive
    rresult,      \* what Message.read returned or raised
    sendret,      \* what Interface.send returned or raised
    \* Dobot.close and Dobot.follow_path (dobot.py)
    fop,          \* the operation in progress: "none", "wait", "close", "follow_path"
    force_close,  \* the force_close argument of close
    serial_open,  \* whether the serial port is open
    devRunning,   \* whether the device executes its queue
    npoints,      \* the number of points of the path
    relative,     \* follow_path_relative rather than follow_path
    wantWait,     \* the wait argument of follow_path
    rets,         \* what each set_continous_trajectory_command returned so far
    mark,         \* Len(sent) when the operation was called
    \* one method of Interface building its request (interface.py)
    imethod,      \* the method: <<name, command id, rw, "queue" | "False">>
    \* a sequence of Interface.send calls on a line whose answers may be late
    inflight,     \* the answers the device has sent that have not arrived yet
    rframes,      \* the frames that have arrived and were not yet read
    rseen,        \* for every send so far: its request, what it read, what it returned
    lreq,         \* the request just written, as <<command id, rw, is_queued>>
    lpc           \* "off", "idle", "read"

waitVars == <<pc, arg, queue_index, index, polls, sent, devCur, devLast, lastBefore, simN, simV>>
sendVars == <<lockOwner, tpc, treq, woff, calls, wire, lockOrder, tresult, tresp>>
codecVars == <<mobj, packed, parsed, cstage, corrupt>>
readVars == <<stream, rpc, rframe, rcut, rresult, sendret>>
facadeVars == <<fop, force_close, serial_open, devRunning, npoints, relative, wantWait, rets, mark>>
ifaceVars == <<imethod>>
lineVars == <<inflight, rframes, rseen, lreq, lpc>>
vars == <<waitVars, sendVars, codecVars, readVars, facadeVars, ifaceVars, lineVars>>

Threads == 1 .. NumThreads

\* the parts of the state a specification does not use rest at these values
WaitOff ==
    /\ pc = "off" /\ arg = None /\ queue_index = None /\ index = None
    /\ polls = 0 /\ sent = <<>> /\ devCur = 0 /\ devLast = 0 /\ lastBefore = 0
    /\ simN = 0 /\ simV = 0
SendOff ==
    /\ lockOwner = 0
    /\ tpc = [t \in Threads |-> "off"]
    /\ treq = [t \in Threads |-> <<>>]
    /\ woff = [t \in Threads |-> 0]
    /\ calls = [t \in Threads |-> 0]
    /\ wire = <<>> /\ lockOrder = <<>>
    /\ tresult = [t \in Threads |-> PyNone]
    /\ tresp = [t \in Threads |-> <<>>]
CodecOff ==
    /\ mobj = PyNone /\ packed = PyNone /\ parsed = PyNone
    /\ cstage = "off" /\ corrupt = None
ReadOff ==
    /\ stream = <<>> /\ rpc = "off" /\ rframe = <<>> /\ rcut = 0
    /\ rresult = PyNone /\ sendret = PyNone
FacadeOff ==
    /\ fop = "none" /\ force_close = FALSE /\ serial_open = TRUE /\ devRunning = TRUE
    /\ npoints = 0 /\ relative = FALSE /\ wantWait = FALSE /\ rets = <<>> /\ mark = 0
IfaceOff == imethod = <<>>
LineOff ==
    /\ inflight = <<>> /\ rframes = <<>> /\ rseen = <<>> /\ lreq = <<>> /\ lpc = "off"

(***************************************************************************)
(* Message.package and Message.parse applied to one message.               *)
(***************************************************************************)

\* Message.package(): self.length is recomputed and the frame is returned
Package ==
    /\ cstage = "new"
    /\ packed' = package(mobj)
    /\ mobj' = [mobj EXCEPT !.length = 2 + Len(mobj.raw_params)]
    /\ cstage' = "packaged"
    /\ UNCHANGED <<parsed, corrupt>>

\* one byte among command_id, control, params and checksum takes another value
Corrupt ==
    /\ cstage = "packaged"
    /\ packed.tag = "bytes"
    /\ \E pos \in 4 .. Len(packed.val) : \E b \in Byte \ {packed.val[pos]} :
          /\ corrupt' = Some(<<pos, b>>)
          /\ packed' = [packed EXCEPT !.val[pos] = b]
    /\ cstage' = "corrupted"
    /\ UNCHANGED <<mobj, parsed>>

\* Message.parse(frame)
Parse ==
    /\ cstage \in {"packaged", "corrupted"}
    /\ packed.tag = "bytes"
    /\ parsed' = parse(packed.val)
    /\ cstage' = "parsed"
    /\ UNCHANGED <<mobj, packed, corrupt>>

\* every command id, both flags and short parameter sequences over
\* SampleBytes; and, for a few ids, the two lengths around the largest frame
InitCodec ==
    /\ WaitOff /\ SendOff /\ ReadOff /\ FacadeOff /\ IfaceOff /\ LineOff
    /\ \/ \E id \in Byte, rw \in BOOLEAN, is_queued \in BOOLEAN,
             length \in {0, InitLength}, raw \in ParamSeqs :
             mobj = MessageIn(<<Magic, Magic>>, length, id, rw, is_queued, raw)
       \/ \E id \in SampleIds, rw \in BOOLEAN, is_queued \in BOOLEAN, raw \in LongSeqs :
             mobj = MessageIn(<<Magic, Magic>>, InitLength, id, rw, is_queued, raw)
    /\ packed = PyNone /\ parsed = PyNone /\ cstage = "new" /\ corrupt = None

NextCodec ==
    \/ Package /\ UNCHANGED <<waitVars, sendVars, readVars, facadeVars, ifaceVars, lineVars>>
    \/ Parse /\ UNCHANGED <<waitVars, sendVars, readVars, facadeVars, ifaceVars, lineVars>>

SpecCodec == InitCodec /\ [][NextCodec]_vars

\* the same with a few command ids, and one byte of the frame changed
InitCorrupt ==
    /\ WaitOff /\ SendOff /\ ReadOff /\ FacadeOff /\ IfaceOff /\ LineOff
    /\ \E id \in SampleIds, rw \in BOOLEAN, is_queued \in BOOLEAN, raw \in ParamSeqs :
          mobj = MessageIn(<<Magic, Magic>>, InitLength, id, rw, is_queued, raw)
    /\ packed = PyNone /\ parsed = PyNone /\ cstage = "new" /\ corrupt = None

NextCorrupt ==
    \/ Package /\ UNCHANGED <<waitVars, sendVars, readVars, facadeVars, ifaceVars, lineVars>>
    \/ Corrupt /\ UNCHANGED <<waitVars, sendVars, readVars, facadeVars, ifaceVars, lineVars>>
    \/ Parse /\ UNCHANGED <<waitVars, sendVars, readVars, facadeVars, ifaceVars, lineVars>>

SpecCorrupt == InitCorrupt /\ [][NextCorrupt]_vars

\* the payload package sums: command id, control, raw parameters
PayloadOf(x) == <<x.id, Control(x.rw, x.is_queued)>> \o x.raw_params

\* C7: whenever package produced a frame from a message and parse was applied
\* to exactly those bytes, parse yields a Message with the same command id,
\* the same rw and is_queued flags and the same raw parameter bytes.
C7_RoundTrip ==
    (cstage = "parsed" /\ corrupt = None) =>
        /\ parsed.tag = "Message"
        /\ parsed.msg.id = mobj.id
        /\ parsed.msg.rw = mobj.rw
        /\ parsed.msg.is_queued = mobj.is_queued
        /\ parsed.msg.raw_params = mobj.raw_params

\* a round trip of a queued write with parameters whose sum wraps around
C7_Witness ==
    /\ cstage = "parsed" /\ corrupt = None
    /\ mobj.rw /\ mobj.is_queued /\ mobj.id = 255
    /\ mobj.raw_params = <<255, 1>>
    /\ parsed.tag = "Message"

\* C8: for every payload, verify_checksum(payload, calculate_checksum(payload))
\* is true and the checksum is a byte; and every frame package produced has
\* (command_id + control + sum(params) + checksum) mod 256 = 0.
C8_Checksum ==
    (cstage \in {"new", "packaged", "parsed"} /\ corrupt = None) =>
        /\ \A payload \in {mobj.raw_params, PayloadOf(mobj)} :
              /\ calculate_checksum(payload) \in Byte
              /\ verify_checksum(payload, calculate_checksum(payload))
        /\ (cstage # "new" /\ packed.tag = "bytes") =>
              LET f == packed.val
              IN  (f[4] + f[5] + Sum(Slice(f, 5, Len(f) - 1)) + f[Len(f)]) % Modulus = 0

\* a packaged frame whose payload sums to a multiple of 256 (checksum 0), and
\* one whose payload sum exceeds one byte
C8_Witness ==
    /\ cstage = "packaged" /\ packed.tag = "bytes"
    /\ \/ (Sum(PayloadOf(mobj)) = Modulus /\ packed.val[Len(packed.val)] = 0)
       \/ (Sum(PayloadOf(mobj)) > 2 * Modulus /\ packed.val[Len(packed.val)] > 0)

\* C9: a frame produced by package with exactly one byte among command_id,
\* control, params and checksum changed to another value parses to None.
C9_CorruptRejected ==
    (cstage = "parsed" /\ corrupt # None) => parsed = PyNone

\* bit 1 of the checksum byte of a frame with parameters was flipped
C9_Witness ==
    /\ cstage = "parsed" /\ corrupt # None
    /\ corrupt[1][1] = Len(packed.val)
    /\ Len(mobj.raw_params) > 0
    /\ LET old == calculate_checksum(PayloadOf(mobj))
       IN  corrupt[1][2] = IF (old \div 2) % 2 = 0 THEN old + 2 ELSE old - 2
    /\ parsed = PyNone

\* C20: in every frame package produced the length byte is 2 + the number of
\* parameter bytes of the frame, whatever length the constructor was given,
\* and the frame is header, length, command id, control, parameters and
\* checksum: length + 4 bytes.
C20_LengthByte ==
    (cstage \in {"packaged", "parsed"} /\ packed.tag = "bytes") =>
        LET f == packed.val
        IN  /\ Len(f) >= 6
            /\ f[3] = 2 + (Len(f) - 6)
            /\ f[3] = 2 + Len(mobj.raw_params)
            /\ Len(f) = f[3] + 4
            /\ Take(f, 2) = mobj.header
            /\ f[4] = mobj.id
            /\ f[5] = Control(mobj.rw, mobj.is_queued)
            /\ Slice(f, 5, Len(f) - 1) = mobj.raw_params
            /\ mobj.length = f[3]

\* a message with two parameter bytes, constructed with length 0 or 2, was
\* packaged: the length byte is 4 and the frame has 8 bytes
C20_Witness ==
    /\ cstage = "packaged" /\ packed.tag = "bytes"
    /\ Len(mobj.raw_params) = 2
    /\ packed.val[3] = 4
    /\ Len(packed.val) = 8

\* the command registers three different codecs for the three decode roles
AllRoles(id) ==
    /\ parsers(id) # <<>>
    /\ "none" \notin {parsers(id)[i] : i \in 1 .. 3}
    /\ Cardinality({parsers(id)[i] : i \in 1 .. 3}) = 3

\* C12 as stated: for a command with distinct codecs for all three roles,
\* every parsed frame with rw=0 is decoded with the Read codec, one with rw=1
\* and is_queued=0 with the Read codec, one with rw=1 and is_queued=1 with the
\* QueuedWrite codec, each on the frame's raw parameter bytes.
C12_RoleDispatch_Original ==
    (cstage = "parsed" /\ parsed.tag = "Message" /\ AllRoles(parsed.msg.id)) =>
        LET p == parsed.msg
        IN  /\ (~p.rw) => p.params = Decoded(parsers(p.id)[1], p.raw_params)
            /\ (p.rw /\ ~p.is_queued) => p.params = Decoded(parsers(p.id)[1], p.raw_params)
            /\ (p.rw /\ p.is_queued) => p.params = Decoded(parsers(p.id)[3], p.raw_params)

\* C12: for a command with distinct codecs for all three roles, a parsed
\* frame with rw=0 and is_queued=0 is decoded with the Read codec, one with
\* rw=1 and is_queued=0 with the Read codec as well, one with rw=1 and
\* is_queued=1 with the QueuedWrite codec, each on the frame's raw parameter
\* bytes; the ImmediateWrite codec is never the one that ran.
C12_RoleDispatch ==
    (cstage = "parsed" /\ parsed.tag = "Message" /\ AllRoles(parsed.msg.id)) =>
        LET p == parsed.msg
        IN  /\ (~p.rw /\ ~p.is_queued) => p.params = Decoded(parsers(p.id)[1], p.raw_params)
            /\ (p.rw /\ ~p.is_queued) => p.params = Decoded(parsers(p.id)[1], p.raw_params)
            /\ (p.rw /\ p.is_queued) => p.params = Decoded(parsers(p.id)[3], p.raw_params)
            /\ p.raw_params = mobj.raw_params
            /\ p.params # Decoded(parsers(p.id)[2], p.raw_params)

\* an immediate write acknowledgement with two parameter bytes was decoded
\* with the Read codec
C12_Witness ==
    /\ cstage = "parsed" /\ parsed.tag = "Message"
    /\ AllRoles(parsed.msg.id)
    /\ parsed.msg.rw /\ ~parsed.msg.is_queued
    /\ parsed.msg.raw_params = <<1, 255>>
    /\ parsed.msg.params = Decoded("Read", <<1, 255>>)

\* the command has a descriptor, and the slot the frame's control bits select
\* is empty or the bits select no slot
NoRoleCodec(id, rw, is_queued) ==
    /\ parsers(id) # <<>>
    /\ \/ (~rw) /\ is_queued
       \/ (~is_queued) /\ parsers(id)[1] = "none"
       \/ rw /\ is_queued /\ parsers(id)[3] = "none"

\* C14 as stated: a checksum-valid frame whose command has no descriptor, or
\* whose role has no codec, parses to a Message whose params is the empty
\* list, the same value in both cases.
C14_EmptyResult_Original ==
    (cstage = "parsed" /\ corrupt = None) =>
        LET p == parsed.msg
        IN  /\ parsed.tag = "Message"
            /\ (parsers(p.id) = <<>> \/ NoRoleCodec(p.id, p.rw, p.is_queued)) =>
                   p.params = PyEmpty

\* C14: a checksum-valid frame whose command has no descriptor parses to a
\* Message whose params is None, and one whose command has a descriptor but
\* no codec for the frame's role parses to a Message whose params is the
\* empty list; neither raises, and neither is a decoded value.
C14_EmptyResult ==
    (cstage = "parsed" /\ corrupt = None) =>
        LET p == parsed.msg
        IN  /\ parsed.tag = "Message"
            /\ (parsers(p.id) = <<>>) => p.params = PyNone
            /\ NoRoleCodec(p.id, p.rw, p.is_queued) => p.params = PyEmpty
            /\ (parsers(p.id) = <<>> \/ NoRoleCodec(p.id, p.rw, p.is_queued)) =>
                   p.params.tag # "decoded"

\* a frame with two parameter bytes for a command without descriptor was
\* parsed: its params is None
C14_Witness ==
    /\ cstage = "parsed" /\ corrupt = None
    /\ parsed.tag = "Message"
    /\ parsers(parsed.msg.id) = <<>>
    /\ parsed.msg.raw_params = <<255, 0>>
    /\ parsed.msg.params = PyNone

\* a request built with direction OUT from the caller's parameters, packaged
\* and parsed back
InitOut ==
    /\ WaitOff /\ SendOff /\ ReadOff /\ FacadeOff /\ IfaceOff /\ LineOff
    /\ \E id \in SampleIds, rw \in BOOLEAN, is_queued \in BOOLEAN, params \in ParamSeqs :
          mobj = MessageOut(<<Magic, Magic>>, InitLength, id, rw, is_queued, params)
    /\ packed = PyNone /\ parsed = PyNone /\ cstage = "new" /\ corrupt = None

NextOut ==
    \/ Package /\ UNCHANGED <<waitVars, sendVars, readVars, facadeVars, ifaceVars, lineVars>>
    \/ Parse /\ UNCHANGED <<waitVars, sendVars, readVars, facadeVars, ifaceVars, lineVars>>

SpecOut == InitOut /\ [][NextOut]_vars

\* the command has no OutgoingEncode codec registered
NoEncoder(id) == parsers(id) = <<>> \/ parsers(id)[4] = "none"

\* C13: when a request is built for a command with no OutgoingEncode codec,
\* the parameter bytes of the packaged frame equal the parameters the caller
\* gave.
C13_IdentityEncoding ==
    (cstage = "packaged" /\ packed.tag = "bytes" /\ NoEncoder(mobj.id)) =>
        Slice(packed.val, 5, Len(packed.val) - 1) = mobj.params

(***************************************************************************)
(* Message.read and Interface.send on a stream that may end early.         *)
(***************************************************************************)

\* frames a device may answer with
SampleFrames ==
    {package(MessageIn(<<Magic, Magic>>, InitLength, id, rw, is_queued, raw)).val :
        id \in SampleIds, rw \in BOOLEAN, is_queued \in BOOLEAN, raw \in ParamSeqs}

\* what the line delivers when one of the two header bytes is not 0xAA
BadMagicStreams ==
    {[f EXCEPT ![i] = b] : f \in SampleFrames, i \in 1 .. 2, b \in {0, Magic + 1}}

\* response = Message.read(self.serial)
Read ==
    /\ rpc = "ready"
    /\ rresult' = read(stream).result
    /\ stream' = read(stream).rest
    /\ rpc' = "read"
    /\ UNCHANGED <<rframe, rcut, sendret>>

\* Interface.send, lines 48-51
SendReturn ==
    /\ rpc = "read"
    /\ sendret' = SendResult(rresult)
    /\ rpc' = "done"
    /\ UNCHANGED <<stream, rframe, rcut, rresult>>

\* the first rcut bytes of a frame, or of bytes with a bad header, arrive,
\* then the line is silent
InitRead ==
    /\ WaitOff /\ SendOff /\ CodecOff /\ FacadeOff /\ IfaceOff /\ LineOff
    /\ rframe \in SampleFrames \cup BadMagicStreams
    /\ rcut \in 0 .. Len(rframe)
    /\ stream = Take(rframe, rcut)
    /\ rpc = "ready" /\ rresult = PyNone /\ sendret = PyNone

NextRead ==
    \/ Read /\ UNCHANGED <<waitVars, sendVars, codecVars, facadeVars, ifaceVars, lineVars>>
    \/ SendReturn /\ UNCHANGED <<waitVars, sendVars, codecVars, facadeVars, ifaceVars, lineVars>>

SpecRead == InitRead /\ [][NextRead]_vars

\* C10: when fewer bytes arrive than the framed read asks for, at whatever
\* point, Message.read yields None and Interface.send returns None, and
\* nothing is raised.
C10_TruncatedIsNone ==
    (rpc = "done" /\ rcut < Len(rframe)) => (rresult = PyNone /\ sendret = PyNone)

\* C11: when the first two bytes read are not 0xAA 0xAA, Message.read yields
\* None having taken those two bytes (fewer if the line delivered fewer) and
\* nothing after them: the rest of what the line delivered is still unread.
C11_BadMagicTwoBytes ==
    LET arrived == Take(rframe, rcut)
    IN  (rpc \in {"read", "done"} /\ Take(arrived, 2) # <<Magic, Magic>>) =>
            /\ rresult = PyNone
            /\ stream = Drop(arrived, 2)
            /\ Len(arrived) - Len(stream) <= 2

\* a whole frame's worth of bytes with a wrong second header byte: after the
\* read all but two of them are still on the line, and send returned None
C11_Witness ==
    /\ rpc = "done" /\ rcut = Len(rframe) /\ rcut >= 7
    /\ rframe[1] = Magic /\ rframe[2] # Magic
    /\ Len(stream) = rcut - 2 /\ stream[1] = rframe[3]
    /\ rresult = PyNone /\ sendret = PyNone

(***************************************************************************)
(* Dobot.wait and the device's instruction queue.                          *)
(*                                                                         *)
(* The device keeps the index of the instruction it is executing or has    *)
(* executed last (devCur) and gives every queued instruction the next      *)
(* index (devLast).  A queued write is appended when its frame is sent.    *)
(***************************************************************************)

\* interface.get_current_queue_index(): Message(..., 246, True, False, [])
QueryFrame == <<IdQueueIndex, Control(TRUE, FALSE)>>
\* interface.wait(0): Message(..., 110, True, queue=True, [0])
NoopFrame == <<IdWait, Control(TRUE, TRUE)>>
\* interface.set_point_to_point_command(...): Message(..., 84, True, queue=True, ...)
PTPFrame == <<IdPTP, Control(TRUE, TRUE)>>

\* the poll counter and the record of sent frames stop growing at MaxPolls;
\* the loop itself goes on
Record(frame) == IF polls < MaxPolls THEN Append(sent, frame) ELSE sent

\* exits of the poll loop that a slip would produce
ExitLoop_ge(i, target) == i[1] >= target[1]
ExitLoop_never(i, target) == i[1] > target[1] + MaxPolls + MaxIndex + MaxPending + 1

\* dobot.py line 160, second conjunct: index > queue_index, both integers
ExitLoop(i, target) == i[1] > target[1]

\* Dobot.move_to(..., wait=False): one queued point-to-point instruction
Enqueue ==
    /\ pc = "idle"
    /\ devLast - simV < MaxPending
    /\ sent' = Append(sent, PTPFrame)
    /\ devLast' = devLast + 1
    /\ UNCHANGED <<pc, arg, queue_index, index, polls, devCur, lastBefore, simN, simV>>

\* a call of Dobot.wait(queue_index=a)
CallWait(a) ==
    /\ pc = "idle"
    /\ pc' = "noop"
    /\ arg' = a
    /\ queue_index' = a
    /\ lastBefore' = devLast
    /\ UNCHANGED <<index, polls, sent, devCur, devLast, simN, simV>>

\* line 154: self.interface.wait(0); the device appends the no-op
WaitNoop ==
    /\ pc = "noop"
    /\ sent' = Append(sent, NoopFrame)
    /\ devLast' = devLast + 1
    /\ pc' = IF queue_index = None THEN "baseline" ELSE "poll"
    /\ UNCHANGED <<arg, queue_index, index, polls, devCur, lastBefore, simN, simV>>

\* lines 156-157: queue_index = self.interface.get_current_queue_index()
WaitBaseline(resp) ==
    /\ pc = "baseline"
    /\ sent' = Append(sent, QueryFrame)
    /\ queue_index' = resp
    /\ pc' = "poll"
    /\ UNCHANGED <<arg, index, polls, devCur, devLast, lastBefore, simN, simV>>

\* a loop that gives up after MaxPolls queries
WaitPoll_giveup(resp) ==
    /\ pc = "poll"
    /\ sent' = Record(QueryFrame)
    /\ polls' = IF polls < MaxPolls THEN polls + 1 ELSE polls
    /\ index' = resp
    /\ pc' = IF polls + 1 >= MaxPolls THEN "returned"
             ELSE IF resp = None THEN "sleep"
             ELSE IF queue_index = None THEN "raised"
             ELSE IF ExitLoop(resp, queue_index) THEN "returned"
             ELSE "sleep"
    /\ UNCHANGED <<arg, queue_index, devCur, devLast, lastBefore, simN, simV>>

\* lines 159-161: one query of the loop and the test on its answer; comparing
\* an integer with None raises TypeError
WaitPoll(resp) ==
    /\ pc = "poll"
    /\ sent' = Record(QueryFrame)
    /\ polls' = IF polls < MaxPolls THEN polls + 1 ELSE polls
    /\ index' = resp
    /\ pc' = IF resp = None THEN "sleep"
             ELSE IF queue_index = None THEN "raised"
             ELSE IF ExitLoop(resp, queue_index) THEN "returned"
             ELSE "sleep"
    /\ UNCHANGED <<arg, queue_index, devCur, devLast, lastBefore, simN, simV>>

\* line 163: sleep(0.5)
WaitSleep ==
    /\ pc = "sleep"
    /\ pc' = "poll"
    /\ UNCHANGED <<arg, queue_index, index, polls, sent, devCur, devLast, lastBefore, simN, simV>>

\* the device starts its next instruction
DeviceAdvance ==
    /\ devCur < devLast
    /\ devCur' = devCur + 1
    /\ UNCHANGED <<pc, arg, queue_index, index, polls, sent, devLast, lastBefore, simN, simV>>

\* a query is answered with the device's current index, or not at all
Answers == {None, Some(devCur)}

InitWait ==
    /\ SendOff /\ CodecOff /\ ReadOff /\ FacadeOff /\ IfaceOff /\ LineOff
    /\ pc = "idle" /\ arg = None /\ queue_index = None /\ index = None
    /\ polls = 0 /\ sent = <<>>
    /\ simV \in 0 .. MaxIndex
    /\ devCur = simV /\ devLast = simV /\ lastBefore = simV
    /\ simN = 0

Init == InitWait

Next ==
    \/ Enqueue /\ UNCHANGED <<sendVars, codecVars, readVars, facadeVars, ifaceVars, lineVars>>
    \/ (\E a \in {None} \cup {Some(k) : k \in 0 .. MaxIndex + MaxPending} : CallWait(a))
          /\ UNCHANGED <<sendVars, codecVars, readVars, facadeVars, ifaceVars, lineVars>>
    \/ WaitNoop /\ UNCHANGED <<sendVars, codecVars, readVars, facadeVars, ifaceVars, lineVars>>
    \/ (\E resp \in Answers : WaitBaseline(resp)) /\ UNCHANGED <<sendVars, codecVars, readVars, facadeVars, ifaceVars, lineVars>>
    \/ (\E resp \in Answers : WaitPoll(resp)) /\ UNCHANGED <<sendVars, codecVars, readVars, facadeVars, ifaceVars, lineVars>>
    \/ WaitSleep /\ UNCHANGED <<sendVars, codecVars, readVars, facadeVars, ifaceVars, lineVars>>
    \/ DeviceAdvance /\ UNCHANGED <<sendVars, codecVars, readVars, facadeVars, ifaceVars, lineVars>>

Spec == Init /\ [][Next]_vars

\* position of the first frame with command id `id` in the record, 0 if none
FirstPos(log, id) ==
    IF \E i \in 1 .. Len(log) : log[i][1] = id
    THEN CHOOSE i \in 1 .. Len(log) : log[i][1] = id /\ \A j \in 1 .. i - 1 : log[j][1] # id
    ELSE 0

\* C1: a call wait() with no queue_index has returned only when the device's
\* current index has passed the index of the last instruction queued before
\* the call.
C1_WaitDrainsQueue ==
    (pc = "returned" /\ arg = None) => devCur > lastBefore

\* C2: in a call wait() with no queue_index, the baseline query of the
\* current index is sent before the no-op wait instruction is.
C2_BaselineBeforeNoop ==
    (arg = None /\ FirstPos(sent, IdQueueIndex) > 0) =>
        (FirstPos(sent, IdWait) = 0 \/ FirstPos(sent, IdQueueIndex) < FirstPos(sent, IdWait))

\* C4: wait(queue_index=k) has returned only on a query that was answered
\* with an index strictly greater than k.
C4_ReturnsAboveTarget ==
    (pc = "returned" /\ arg # None) => (index # None /\ index[1] > arg[1])

\* wait(queue_index=k) returned after polls that saw k itself and no answer
C4_Witness ==
    /\ pc = "returned" /\ arg # None
    /\ polls >= 2
    /\ index = Some(arg[1] + 1)
    /\ arg[1] > simV

(***************************************************************************)
(* Dobot.wait() against a simulated device: idle at index simV, it answers *)
(* every query, reports simV to the baseline query and to the first simN   *)
(* poll queries after the no-op was enqueued at simV + 1, and then         *)
(* advances to simV + 1.                                                   *)
(***************************************************************************)

SimAdvance ==
    /\ pc \in {"poll", "sleep"}
    /\ polls >= simN
    /\ devCur < devLast
    /\ devCur' = devCur + 1
    /\ UNCHANGED <<pc, arg, queue_index, index, polls, sent, devLast, lastBefore, simN, simV>>

InitSim ==
    /\ SendOff /\ CodecOff /\ ReadOff /\ FacadeOff /\ IfaceOff /\ LineOff
    /\ pc = "idle" /\ arg = None /\ queue_index = None /\ index = None
    /\ polls = 0 /\ sent = <<>>
    /\ simV \in 0 .. MaxIndex
    /\ devCur = simV /\ devLast = simV /\ lastBefore = simV
    /\ simN \in 0 .. MaxN

SimClient ==
    \/ CallWait(None)
    \/ WaitNoop
    \/ WaitBaseline(Some(devCur))
    \/ WaitPoll(Some(devCur))
    \/ WaitSleep

NextSim ==
    \/ CallWait(None) /\ UNCHANGED <<sendVars, codecVars, readVars, facadeVars, ifaceVars, lineVars>>
    \/ WaitNoop /\ UNCHANGED <<sendVars, codecVars, readVars, facadeVars, ifaceVars, lineVars>>
    \/ WaitBaseline(Some(devCur)) /\ UNCHANGED <<sendVars, codecVars, readVars, facadeVars, ifaceVars, lineVars>>
    \/ WaitPoll(Some(devCur)) /\ UNCHANGED <<sendVars, codecVars, readVars, facadeVars, ifaceVars, lineVars>>
    \/ WaitSleep /\ UNCHANGED <<sendVars, codecVars, readVars, facadeVars, ifaceVars, lineVars>>
    \/ SimAdvance /\ UNCHANGED <<sendVars, codecVars, readVars, facadeVars, ifaceVars, lineVars>>

\* the calling thread keeps running and the device does advance
SpecSim ==
    /\ InitSim /\ [][NextSim]_vars
    /\ WF_vars(SimClient /\ UNCHANGED <<sendVars, codecVars, readVars, facadeVars, ifaceVars, lineVars>>)
    /\ WF_vars(SimAdvance /\ UNCHANGED <<sendVars, codecVars, readVars, facadeVars, ifaceVars, lineVars>>)

ThreadRequest(t) ==
    IF t = 1
    THEN MessageOut(<<Magic, Magic>>, InitLength, IdQueueIndex, TRUE, FALSE, <<>>)
    ELSE MessageOut(<<Magic, Magic>>, InitLength, IdWait, TRUE, TRUE, <<0>>)

\* what the line delivers after the request of thread t: nothing, the
\* answer, its header alone, the answer with a wrong header byte, the answer
\* with a wrong checksum
Responses(t) ==
    LET req == ThreadRequest(t)
        answer == package(MessageIn(<<Magic, Magic>>, InitLength, req.id, req.rw,
                                    req.is_queued, <<1>>)).val
    IN  {<<>>, answer, Take(answer, 2),
         [answer EXCEPT ![1] = 0],
         [answer EXCEPT ![Len(answer)] = (@ + 1) % Modulus]}

\* a call of Interface.send(message): the thread reaches `with self.lock`
SendCall(t) ==
    /\ tpc[t] = "idle"
    /\ Sum(calls) < MaxCalls
    /\ calls' = [calls EXCEPT ![t] = @ + 1]
    /\ tpc' = [tpc EXCEPT ![t] = "lock"]
    /\ UNCHANGED <<lockOwner, treq, woff, wire, lockOrder, tresult, tresp>>

\* the lock taken although another thread holds it
SendAcquire_nolock(t) ==
    /\ tpc[t] = "lock"
    /\ lockOwner' = t
    /\ treq' = [treq EXCEPT ![t] = package(ThreadRequest(t)).val]
    /\ woff' = [woff EXCEPT ![t] = 0]
    /\ lockOrder' = Append(lockOrder, <<t, calls[t], package(ThreadRequest(t)).val>>)
    /\ tpc' = [tpc EXCEPT ![t] = "write"]
    /\ UNCHANGED <<calls, wire, tresult, tresp>>

\* line 43: with self.lock (an RLock: free, or held by the same thread), and
\* message.package() of line 44
SendAcquire(t) ==
    /\ tpc[t] = "lock"
    /\ lockOwner \in {0, t}
    /\ lockOwner' = t
    /\ treq' = [treq EXCEPT ![t] = package(ThreadRequest(t)).val]
    /\ woff' = [woff EXCEPT ![t] = 0]
    /\ lockOrder' = Append(lockOrder, <<t, calls[t], package(ThreadRequest(t)).val>>)
    /\ tpc' = [tpc EXCEPT ![t] = "write"]
    /\ UNCHANGED <<calls, wire, tresult, tresp>>

\* line 44: self.serial.write(...), one byte of the frame
SendWrite(t) ==
    /\ tpc[t] = "write"
    /\ woff[t] < Len(treq[t])
    /\ wire' = Append(wire, <<t, calls[t], woff[t] + 1, treq[t][woff[t] + 1]>>)
    /\ woff' = [woff EXCEPT ![t] = @ + 1]
    /\ tpc' = [tpc EXCEPT ![t] = IF woff[t] + 1 = Len(treq[t]) THEN "flush" ELSE "write"]
    /\ UNCHANGED <<lockOwner, treq, calls, lockOrder, tresult, tresp>>

\* a flush that also lets go of the lock
SendFlush_release(t) ==
    /\ tpc[t] = "flush"
    /\ lockOwner' = 0
    /\ tpc' = [tpc EXCEPT ![t] = "read"]
    /\ UNCHANGED <<treq, woff, calls, wire, lockOrder, tresult, tresp>>

\* line 45: self.serial.flush()
SendFlush(t) ==
    /\ tpc[t] = "flush"
    /\ tpc' = [tpc EXCEPT ![t] = "read"]
    /\ UNCHANGED <<lockOwner, treq, woff, calls, wire, lockOrder, tresult, tresp>>

\* line 46: response = Message.read(self.serial); the read ends with a
\* Message, with None or with the exception parse raises
SendRead(t) ==
    /\ tpc[t] = "read"
    /\ \E s \in Responses(t) :
          /\ tresult' = [tresult EXCEPT ![t] = SendResult(read(s).result)]
          /\ tresp' = [tresp EXCEPT ![t] = s]
    /\ wire' = Append(wire, <<t, calls[t], 0, 0>>)
    /\ tpc' = [tpc EXCEPT ![t] = "unlock"]
    /\ UNCHANGED <<lockOwner, treq, woff, calls, lockOrder>>

\* a send that keeps the lock when it ends with an exception
SendRelease_keeponerror(t) ==
    /\ tpc[t] = "unlock"
    /\ lockOwner' = IF tresult[t].tag \in {"IndexError", "SerialException"} THEN lockOwner ELSE 0
    /\ tpc' = [tpc EXCEPT ![t] = "idle"]
    /\ UNCHANGED <<treq, woff, calls, wire, lockOrder, tresult, tresp>>

\* the with block is left, by return or by exception: the lock is released;
\* lines 48-51 hand the result to the caller
SendRelease(t) ==
    /\ tpc[t] = "unlock"
    /\ lockOwner' = 0
    /\ tpc' = [tpc EXCEPT ![t] = "idle"]
    /\ UNCHANGED <<treq, woff, calls, wire, lockOrder, tresult, tresp>>

InitSend ==
    /\ WaitOff /\ CodecOff /\ ReadOff /\ FacadeOff /\ IfaceOff /\ LineOff
    /\ lockOwner = 0
    /\ tpc = [t \in Threads |-> "idle"]
    /\ treq = [t \in Threads |-> <<>>]
    /\ woff = [t \in Threads |-> 0]
    /\ calls = [t \in Threads |-> 0]
    /\ wire = <<>> /\ lockOrder = <<>>
    /\ tresult = [t \in Threads |-> PyNone]
    /\ tresp = [t \in Threads |-> <<>>]

NextSend ==
    \/ (\E t \in Threads : SendCall(t)) /\ UNCHANGED <<waitVars, codecVars, readVars, facadeVars, ifaceVars, lineVars>>
    \/ (\E t \in Threads : SendAcquire(t)) /\ UNCHANGED <<waitVars, codecVars, readVars, facadeVars, ifaceVars, lineVars>>
    \/ (\E t \in Threads : SendWrite(t)) /\ UNCHANGED <<waitVars, codecVars, readVars, facadeVars, ifaceVars, lineVars>>
    \/ (\E t \in Threads : SendFlush(t)) /\ UNCHANGED <<waitVars, codecVars, readVars, facadeVars, ifaceVars, lineVars>>
    \/ (\E t \in Threads : SendRead(t)) /\ UNCHANGED <<waitVars, codecVars, readVars, facadeVars, ifaceVars, lineVars>>
    \/ (\E t \in Threads : SendRelease(t)) /\ UNCHANGED <<waitVars, codecVars, readVars, facadeVars, ifaceVars, lineVars>>

SpecSend == InitSend /\ [][NextSend]_vars

\* a thread is inside an exchange from taking the lock for its request until
\* its response read has ended
InExchange(t) == tpc[t] \in {"write", "flush", "read"}

\* what the line carries when the calls in `order` run one after the other:
\* each frame whole, byte by byte, then its response read
RECURSIVE Expected(_)
Expected(order) ==
    IF order = <<>> THEN <<>>
    ELSE LET e == order[Len(order)]
         IN  Expected(SubSeq(order, 1, Len(order) - 1))
                \o [i \in 1 .. Len(e[3]) |-> <<e[1], e[2], i, e[3][i]>>]
                \o << <<e[1], e[2], 0, 0>> >>

IsPrefix(a, b) == Len(a) <= Len(b) /\ a = SubSeq(b, 1, Len(a))

\* C5: at most one request/response exchange is in flight at any time.
C5_OneExchange ==
    Cardinality({t \in Threads : InExchange(t)}) <= 1

\* one thread is writing its frame while another waits for the lock
C5_Witness ==
    \E t, u \in Threads :
        /\ t # u
        /\ tpc[t] = "write" /\ woff[t] > 0 /\ woff[t] < Len(treq[t])
        /\ tpc[u] = "lock"

\* C6: the line carries the frames in the order in which the send calls took
\* the lock, each frame whole and followed by its own response read, before
\* the next frame begins.
C6_WireOrder ==
    /\ IsPrefix(wire, Expected(lockOrder))
    /\ lockOrder # <<>> =>
          IsPrefix(Expected(SubSeq(lockOrder, 1, Len(lockOrder) - 1)), wire)

\* both threads have completed exchanges, the second to take the lock having
\* called send first and waited
C6_Witness ==
    /\ Len(lockOrder) >= 3
    /\ lockOrder[1][1] # lockOrder[2][1]
    /\ lockOrder[3][1] = lockOrder[1][1]
    /\ wire = Expected(lockOrder)
    /\ \E t \in Threads : tresult[t].tag = "value"

(***************************************************************************)
(* Dobot.close, Dobot.follow_path and Dobot.follow_path_relative against   *)
(* the device: one of them is called after some instructions were queued.  *)
(***************************************************************************)

\* interface.stop_queue(force): Message(..., 242 if force else 241, True, False, [])
StopFrame(force) == <<IF force THEN IdForceStopQueue ELSE IdStopQueue, Control(TRUE, FALSE)>>
\* interface.clear_queue(): Message(..., 245, True, False, [])
ClearFrame == <<IdClearQueue, Control(TRUE, FALSE)>>
\* interface.start_queue(): Message(..., 240, True, False, [])
StartFrame == <<IdStartQueue, Control(TRUE, FALSE)>>
\* interface.set_continous_trajectory_command(mode, x, y, z, 50) for the
\* i-th point of the path: Message(..., 91, True, queue=True, [mode, ...])
CTFrame(i, mode) == <<IdCT, Control(TRUE, TRUE), i, mode>>

\* the frames sent since the operation was called
SinceCall == Drop(sent, mark)

\* a close that drains the queue whatever force_close is
CallClose_alwayswait(f) ==
    /\ pc = "idle" /\ fop = "none"
    /\ fop' = "close"
    /\ force_close' = f
    /\ mark' = Len(sent)
    /\ lastBefore' = devLast
    /\ pc' = "noop" /\ arg' = None /\ queue_index' = None
    /\ UNCHANGED <<index, polls, sent, devCur, devLast, simN, simV>>
    /\ UNCHANGED <<serial_open, devRunning, npoints, relative, wantWait, rets>>

\* Dobot.close(force_close=f), lines 73-74: self.wait() unless forced
CallClose(f) ==
    /\ pc = "idle" /\ fop = "none"
    /\ fop' = "close"
    /\ force_close' = f
    /\ mark' = Len(sent)
    /\ lastBefore' = devLast
    /\ IF f THEN pc' = "stop" /\ UNCHANGED <<arg, queue_index>>
            ELSE pc' = "noop" /\ arg' = None /\ queue_index' = None
    /\ UNCHANGED <<index, polls, sent, devCur, devLast, simN, simV>>
    /\ UNCHANGED <<serial_open, devRunning, npoints, relative, wantWait, rets>>

\* a close that clears the queue without stopping it
CloseStop_skip ==
    /\ fop = "close"
    /\ pc = "stop" \/ pc = "returned"
    /\ pc' = "clear"
    /\ UNCHANGED <<arg, queue_index, index, polls, sent, devCur, devLast, lastBefore, simN, simV>>
    /\ UNCHANGED facadeVars

\* Interface.close, line 55: self.stop_queue(force=force); reached at once
\* when forced, and when self.wait() has returned otherwise
CloseStop ==
    /\ fop = "close"
    /\ pc = "stop" \/ pc = "returned"
    /\ sent' = Append(sent, StopFrame(force_close))
    /\ devRunning' = FALSE
    /\ pc' = "clear"
    /\ UNCHANGED <<arg, queue_index, index, polls, devCur, devLast, lastBefore, simN, simV>>
    /\ UNCHANGED <<fop, force_close, serial_open, npoints, relative, wantWait, rets, mark>>

\* Interface.close, line 56: self.clear_queue()
CloseClear ==
    /\ pc = "clear"
    /\ sent' = Append(sent, ClearFrame)
    /\ pc' = "serial_close"
    /\ UNCHANGED <<arg, queue_index, index, polls, devCur, devLast, lastBefore, simN, simV>>
    /\ UNCHANGED facadeVars

\* Interface.close, line 57: self.serial.close()
CloseSerial ==
    /\ pc = "serial_close"
    /\ serial_open' = FALSE
    /\ pc' = "closed"
    /\ UNCHANGED <<arg, queue_index, index, polls, sent, devCur, devLast, lastBefore, simN, simV>>
    /\ UNCHANGED <<fop, force_close, devRunning, npoints, relative, wantWait, rets, mark>>

\* Dobot.follow_path(path, wait) and Dobot.follow_path_relative(path, wait)
\* on a path of n points
CallFollow(n, rel, w) ==
    /\ pc = "idle" /\ fop = "none"
    /\ fop' = "follow_path"
    /\ npoints' = n /\ relative' = rel /\ wantWait' = w
    /\ rets' = <<>>
    /\ mark' = Len(sent)
    /\ pc' = "fstop"
    /\ UNCHANGED <<arg, queue_index, index, polls, sent, devCur, devLast, lastBefore, simN, simV>>
    /\ UNCHANGED <<force_close, serial_open, devRunning>>

\* lines 167-168: self.interface.stop_queue(); queue_index = None
FollowStop ==
    /\ pc = "fstop"
    /\ sent' = Append(sent, StopFrame(FALSE))
    /\ devRunning' = FALSE
    /\ pc' = IF npoints = 0 THEN "fstart" ELSE "fpoint"
    /\ UNCHANGED <<arg, queue_index, index, polls, devCur, devLast, lastBefore, simN, simV>>
    /\ UNCHANGED <<fop, force_close, serial_open, npoints, relative, wantWait, rets, mark>>

\* lines 169-172: one turn of the loop; the device appends the instruction
\* and answers with the index it gave it, or the answer is lost
FollowPoint(answered) ==
    /\ pc = "fpoint"
    /\ sent' = Append(sent, CTFrame(Len(rets) + 1, IF relative THEN 0 ELSE 1))
    /\ devLast' = devLast + 1
    /\ rets' = Append(rets, IF answered THEN Some(devLast + 1) ELSE None)
    /\ pc' = IF Len(rets) + 1 = npoints THEN "fstart" ELSE "fpoint"
    /\ UNCHANGED <<arg, queue_index, index, polls, devCur, lastBefore, simN, simV>>
    /\ UNCHANGED <<fop, force_close, serial_open, devRunning, npoints, relative, wantWait, mark>>

\* the local queue_index after the loop: the last answer, None for no point
LastReturned == IF rets = <<>> THEN None ELSE rets[Len(rets)]

\* a follow_path that waits on the index of the first point
FollowStart_first ==
    /\ pc = "fstart"
    /\ sent' = Append(sent, StartFrame)
    /\ devRunning' = TRUE
    /\ IF wantWait
       THEN /\ pc' = "noop"
            /\ arg' = IF rets = <<>> THEN None ELSE rets[1]
            /\ queue_index' = IF rets = <<>> THEN None ELSE rets[1]
            /\ lastBefore' = devLast
       ELSE /\ pc' = "done"
            /\ UNCHANGED <<arg, queue_index, lastBefore>>
    /\ UNCHANGED <<index, polls, devCur, devLast, simN, simV>>
    /\ UNCHANGED <<fop, force_close, serial_open, npoints, relative, wantWait, rets, mark>>

\* lines 173-175: self.interface.start_queue(); if wait: self.wait(queue_index)
FollowStart ==
    /\ pc = "fstart"
    /\ sent' = Append(sent, StartFrame)
    /\ devRunning' = TRUE
    /\ IF wantWait
       THEN /\ pc' = "noop"
            /\ arg' = LastReturned
            /\ queue_index' = LastReturned
            /\ lastBefore' = devLast
       ELSE /\ pc' = "done"
            /\ UNCHANGED <<arg, queue_index, lastBefore>>
    /\ UNCHANGED <<index, polls, devCur, devLast, simN, simV>>
    /\ UNCHANGED <<fop, force_close, serial_open, npoints, relative, wantWait, rets, mark>>

\* the device starts its next instruction; a stopped queue does not run
FacadeDeviceAdvance ==
    /\ devRunning
    /\ DeviceAdvance

InitFacade ==
    /\ SendOff /\ CodecOff /\ ReadOff /\ IfaceOff /\ LineOff
    /\ pc = "idle" /\ arg = None /\ queue_index = None /\ index = None
    /\ polls = 0 /\ sent = <<>>
    /\ simV \in 0 .. MaxIndex
    /\ devCur = simV /\ devLast = simV /\ lastBefore = simV
    /\ simN = 0
    /\ fop = "none" /\ force_close = FALSE /\ serial_open = TRUE /\ devRunning = TRUE
    /\ npoints = 0 /\ relative = FALSE /\ wantWait = FALSE /\ rets = <<>> /\ mark = 0

NextFacade ==
    \/ Enqueue /\ fop = "none" /\ UNCHANGED <<sendVars, codecVars, readVars, facadeVars, ifaceVars, lineVars>>
    \/ (\E f \in BOOLEAN : CallClose(f)) /\ UNCHANGED <<sendVars, codecVars, readVars, ifaceVars, lineVars>>
    \/ (\E n \in 0 .. MaxPath, rel \in BOOLEAN, w \in BOOLEAN : CallFollow(n, rel, w))
          /\ UNCHANGED <<sendVars, codecVars, readVars, ifaceVars, lineVars>>
    \/ WaitNoop /\ UNCHANGED <<sendVars, codecVars, readVars, facadeVars, ifaceVars, lineVars>>
    \/ (\E resp \in Answers : WaitBaseline(resp)) /\ UNCHANGED <<sendVars, codecVars, readVars, facadeVars, ifaceVars, lineVars>>
    \/ (\E resp \in Answers : WaitPoll(resp)) /\ UNCHANGED <<sendVars, codecVars, readVars, facadeVars, ifaceVars, lineVars>>
    \/ WaitSleep /\ UNCHANGED <<sendVars, codecVars, readVars, facadeVars, ifaceVars, lineVars>>
    \/ CloseStop /\ UNCHANGED <<sendVars, codecVars, readVars, ifaceVars, lineVars>>
    \/ CloseClear /\ UNCHANGED <<sendVars, codecVars, readVars, ifaceVars, lineVars>>
    \/ CloseSerial /\ UNCHANGED <<sendVars, codecVars, readVars, ifaceVars, lineVars>>
    \/ FollowStop /\ UNCHANGED <<sendVars, codecVars, readVars, ifaceVars, lineVars>>
    \/ (\E answered \in BOOLEAN : FollowPoint(answered)) /\ UNCHANGED <<sendVars, codecVars, readVars, ifaceVars, lineVars>>
    \/ FollowStart /\ UNCHANGED <<sendVars, codecVars, readVars, ifaceVars, lineVars>>
    \/ FacadeDeviceAdvance /\ UNCHANGED <<sendVars, codecVars, readVars, facadeVars, ifaceVars, lineVars>>

SpecFacade == InitFacade /\ [][NextFacade]_vars

\* the frames of Dobot.wait: the no-op and the index query
IsWaitFrame(frame) == frame[1] \in {IdWait, IdQueueIndex}

\* C15: in a non-forced close the stop-queue frame (241) is sent only when
\* the device has passed every instruction queued before the call; the frames
\* of the drain come first, then 241, then 245; and the serial port is closed
\* only after 241 and 245 were sent, in this order.
C15_NonForcedClose ==
    (fop = "close" /\ ~force_close) =>
        LET log == SinceCall
            stop == FirstPos(log, IdStopQueue)
            clear == FirstPos(log, IdClearQueue)
        IN  /\ (stop > 0) => devCur > lastBefore
            /\ (stop > 0) => \A i \in 1 .. stop - 1 : IsWaitFrame(log[i])
            /\ (stop > 0) => Len(log) <= stop + 1
            /\ (clear > 0) => (stop > 0 /\ clear = stop + 1)
            /\ (~serial_open) => (stop > 0 /\ clear > 0)
            /\ FirstPos(log, IdForceStopQueue) = 0

\* C16: a forced close sends the force-stop frame (242), then the clear-queue
\* frame (245), then closes the serial port: it sends no no-op frame (110)
\* and no index query (246), two frames in all, whatever the device does.
C16_ForcedClose ==
    (fop = "close" /\ force_close) =>
        /\ IsPrefix(SinceCall, <<StopFrame(TRUE), ClearFrame>>)
        /\ \A i \in 1 .. Len(SinceCall) : ~IsWaitFrame(SinceCall[i])
        /\ (pc = "closed") <=> ~serial_open
        /\ (~serial_open) => SinceCall = <<StopFrame(TRUE), ClearFrame>>
        /\ pc \in {"stop", "clear", "serial_close", "closed"}

\* a forced close finished while the device still had instructions pending
\* that it never started
C16_Witness ==
    /\ fop = "close" /\ force_close
    /\ pc = "closed" /\ ~serial_open
    /\ devCur = simV /\ devLast = simV + MaxPending
    /\ Len(SinceCall) = 2

\* what follow_path sends before it waits: stop, a frame per point, start
PathFrames == <<StopFrame(FALSE)>>
                 \o [i \in 1 .. npoints |-> CTFrame(i, IF relative THEN 0 ELSE 1)]
                 \o <<StartFrame>>

\* C17: follow_path and follow_path_relative on a path of n points send one
\* stop-queue frame, then the n continuous-trajectory frames (id 91) in path
\* order, then one start-queue frame, and nothing else but the frames of the
\* wait; with wait requested, the wait is on the index returned for the last
\* point (None for an empty path).
C17_FollowPath ==
    (fop = "follow_path") =>
        LET log == SinceCall
            started == pc \notin {"fstop", "fpoint", "fstart"}
        IN  /\ IsPrefix(Take(log, npoints + 2), PathFrames)
            /\ started => Take(log, npoints + 2) = PathFrames
            /\ \A i \in npoints + 3 .. Len(log) : IsWaitFrame(log[i])
            /\ (Len(log) > npoints + 2) => wantWait
            /\ (started /\ wantWait) =>
                   arg = (IF npoints = 0 THEN None ELSE rets[npoints])
            /\ (started /\ ~wantWait) => pc = "done"

\* follow_path with wait on two points, both answered, has returned: it
\* waited on the second point's index
C17_Witness ==
    /\ fop = "follow_path" /\ wantWait /\ npoints = 2
    /\ pc = "returned"
    /\ rets[1] # None /\ rets[2] # None /\ rets[1] # rets[2]
    /\ arg = rets[2]
    /\ Take(SinceCall, 4) = PathFrames

(***************************************************************************)
(* The methods of Interface: each builds one request with direction OUT    *)
(* and hands it to send, which packages and writes it.                     *)
(***************************************************************************)

\* every get_* method as <<name, command id, rw, is_queued>>, the last two
\* as written in its Message(...) call
GetMethods ==
    {<<"get_device_serial_number", 0, FALSE, "False">>,
     <<"get_device_name", 1, FALSE, "False">>,
     <<"get_device_version", 2, FALSE, "False">>,
     <<"get_device_time", 4, FALSE, "False">>,
     <<"get_device_id", 5, FALSE, "False">>,
     <<"get_pose", 10, FALSE, "False">>,
     <<"get_sliding_rail_pose", 13, FALSE, "False">>,
     <<"get_alarms", 20, FALSE, "False">>,
     <<"get_homing_parameters", 30, FALSE, "False">>,
     <<"get_auto_leveling", 32, FALSE, "False">>,
     <<"get_handheld_teaching_mode", 40, FALSE, "False">>,
     <<"get_handheld_teaching_state", 41, FALSE, "False">>,
     <<"get_handheld_teaching_trigger", 42, FALSE, "False">>,
     <<"get_end_effector_params", 60, FALSE, "False">>,
     <<"get_end_effector_laser", 61, FALSE, "False">>,
     <<"get_end_effector_suction_cup", 62, FALSE, "False">>,
     <<"get_end_effector_gripper", 63, FALSE, "False">>,
     <<"get_jog_joint_params", 70, FALSE, "False">>,
     <<"get_jog_coordinate_params", 71, FALSE, "False">>,
     <<"get_jog_common_params", 72, FALSE, "False">>,
     <<"get_sliding_rail_jog_params", 74, FALSE, "False">>,
     <<"get_point_to_point_joint_params", 80, FALSE, "False">>,
     <<"get_point_to_point_coordinate_params", 81, FALSE, "False">>,
     <<"get_point_to_point_jump_params", 82, FALSE, "False">>,
     <<"get_point_to_point_common_params", 83, FALSE, "False">>,
     <<"get_point_to_point_sliding_rail_params", 85, FALSE, "False">>,
     <<"get_point_to_point_jump2_params", 87, FALSE, "False">>,
     <<"get_continous_trajectory_params", 90, FALSE, "False">>,
     <<"get_arc_params", 100, FALSE, "False">>,
     <<"get_io_multiplexing", 130, FALSE, "False">>,
     <<"get_io_do", 131, FALSE, "False">>,
     <<"get_io_pwm", 132, FALSE, "False">>,
     <<"get_io_di", 133, FALSE, "False">>,
     <<"get_io_adc", 134, FALSE, "False">>,
     <<"get_color_sensor", 137, FALSE, "False">>,
     <<"get_ir_switch", 138, FALSE, "False">>,
     <<"get_angle_sensor_static_error", 140, FALSE, "False">>,
     <<"get_wifi_status", 150, FALSE, "False">>,
     <<"get_wifi_ssid", 151, FALSE, "False">>,
     <<"get_wifi_password", 152, FALSE, "False">>,
     <<"get_wifi_address", 153, FALSE, "False">>,
     <<"get_wifi_netmask", 154, FALSE, "False">>,
     <<"get_wifi_gateway", 155, FALSE, "False">>,
     <<"get_wifi_dns", 156, FALSE, "False">>,
     <<"get_wifi_connect_status", 157, FALSE, "False">>,
     <<"get_current_queue_index", 246, TRUE, "False">>}

\* every other method that builds a request; is_queued is "queue" where the
\* method passes its queue argument on; stop_queue has the id of either
\* value of its force argument
MutatingMethods ==
    {<<"set_device_serial_number", 0, TRUE, "False">>,
     <<"set_device_name", 1, TRUE, "False">>,
     <<"set_sliding_rail_status", 3, TRUE, "False">>,
     <<"reset_pose", 11, TRUE, "False">>,
     <<"clear_alarms", 21, TRUE, "False">>,
     <<"set_homing_parameters", 30, TRUE, "queue">>,
     <<"set_homing_command", 31, TRUE, "queue">>,
     <<"set_auto_leveling", 32, TRUE, "queue">>,
     <<"set_handheld_teaching_mode", 40, TRUE, "False">>,
     <<"set_handheld_teaching_state", 41, TRUE, "False">>,
     <<"set_end_effector_params", 60, TRUE, "False">>,
     <<"set_end_effector_laser", 61, TRUE, "queue">>,
     <<"set_end_effector_suction_cup", 62, TRUE, "queue">>,
     <<"set_end_effector_gripper", 63, TRUE, "queue">>,
     <<"set_jog_joint_params", 70, TRUE, "queue">>,
     <<"set_jog_coordinate_params", 71, TRUE, "queue">>,
     <<"set_jog_common_params", 72, TRUE, "queue">>,
     <<"set_jog_command", 73, TRUE, "queue">>,
     <<"set_sliding_rail_jog_params", 74, TRUE, "queue">>,
     <<"set_point_to_point_joint_params", 80, TRUE, "queue">>,
     <<"set_point_to_point_coordinate_params", 81, TRUE, "queue">>,
     <<"set_point_to_point_jump_params", 82, TRUE, "queue">>,
     <<"set_point_to_point_common_params", 83, TRUE, "queue">>,
     <<"set_point_to_point_command", 84, TRUE, "queue">>,
     <<"set_point_to_point_sliding_rail_params", 85, TRUE, "queue">>,
     <<"set_point_to_point_sliding_rail_command", 86, TRUE, "queue">>,
     <<"set_point_to_point_jump2_params", 87, TRUE, "queue">>,
     <<"set_point_to_point_po_command", 88, TRUE, "queue">>,
     <<"set_point_to_point_sliding_rail_po_command", 89, TRUE, "queue">>,
     <<"set_continous_trajectory_params", 90, TRUE, "queue">>,
     <<"set_continous_trajectory_real_time_params", 90, TRUE, "queue">>,
     <<"set_continous_trajectory_command", 91, TRUE, "queue">>,
     <<"set_continous_trajectory_laser_engraver_command", 92, TRUE, "queue">>,
     <<"set_arc_params", 100, TRUE, "queue">>,
     <<"set_arc_command", 101, TRUE, "queue">>,
     <<"wait", 110, TRUE, "queue">>,
     <<"set_trigger_command", 120, TRUE, "queue">>,
     <<"set_io_multiplexing", 130, TRUE, "queue">>,
     <<"set_io_do", 131, TRUE, "queue">>,
     <<"set_io_pwm", 132, TRUE, "queue">>,
     <<"set_extended_motor_velocity", 135, TRUE, "queue">>,
     <<"set_color_sensor", 137, TRUE, "queue">>,
     <<"set_ir_switch", 138, TRUE, "queue">>,
     <<"set_angle_sensor_static_error", 140, TRUE, "False">>,
     <<"set_wifi_status", 150, TRUE, "False">>,
     <<"set_wifi_ssid", 151, TRUE, "False">>,
     <<"set_wifi_password", 152, TRUE, "False">>,
     <<"set_wifi_address", 153, TRUE, "False">>,
     <<"set_wifi_netmask", 154, TRUE, "False">>,
     <<"set_wifi_gateway", 155, TRUE, "False">>,
     <<"set_wifi_dns", 156, TRUE, "False">>,
     <<"set_lost_step_params", 170, TRUE, "False">>,
     <<"set_lost_step_command", 171, TRUE, "False">>,
     <<"start_queue", 240, TRUE, "False">>,
     <<"stop_queue", IdStopQueue, TRUE, "False">>,
     <<"stop_queue", IdForceStopQueue, TRUE, "False">>,
     <<"start_queue_download", 243, TRUE, "False">>,
     <<"stop_queue_download", 244, TRUE, "False">>,
     <<"clear_queue", 245, TRUE, "False">>}

InterfaceMethods == GetMethods \cup MutatingMethods

\* a method that passes its queue argument but leaves the write bit clear
IfaceBuild_nowrite(queue) ==
    /\ cstage = "call"
    /\ mobj' = MessageOut(<<Magic, Magic>>, InitLength, imethod[2],
                          IF imethod[4] = "queue" THEN FALSE ELSE imethod[3],
                          IF imethod[4] = "queue" THEN queue ELSE FALSE, <<>>)
    /\ cstage' = "new"
    /\ UNCHANGED <<packed, parsed, corrupt, imethod>>

\* the method is called with queue argument `queue` and builds its request;
\* the parameters are left empty, the control byte does not depend on them
IfaceBuild(queue) ==
    /\ cstage = "call"
    /\ mobj' = MessageOut(<<Magic, Magic>>, InitLength, imethod[2], imethod[3],
                          IF imethod[4] = "queue" THEN queue ELSE FALSE, <<>>)
    /\ cstage' = "new"
    /\ UNCHANGED <<packed, parsed, corrupt, imethod>>

InitIface ==
    /\ WaitOff /\ SendOff /\ ReadOff /\ FacadeOff /\ LineOff
    /\ imethod \in InterfaceMethods
    /\ mobj = PyNone /\ packed = PyNone /\ parsed = PyNone
    /\ cstage = "call" /\ corrupt = None

NextIface ==
    \/ (\E queue \in BOOLEAN : IfaceBuild(queue)) /\ UNCHANGED <<waitVars, sendVars, readVars, facadeVars, lineVars>>
    \/ Package /\ UNCHANGED <<waitVars, sendVars, readVars, facadeVars, ifaceVars, lineVars>>

SpecIface == InitIface /\ [][NextIface]_vars

\* C18: the request of every get_* method, get_current_queue_index included,
\* goes out with rw=0 and is_queued=0, control byte 0.
C18_GettersReadOnly ==
    (cstage = "packaged" /\ imethod \in GetMethods) =>
        /\ ~mobj.rw /\ ~mobj.is_queued
        /\ packed.val[5] = 0

(***************************************************************************)
(* Interface.send: what one call writes and reads.                         *)
(***************************************************************************)

\* the entries of the line's record that belong to call k of thread t: the
\* bytes it wrote, and its reads
WritesOf(t, k) == SelectSeq(wire, LAMBDA e : e[1] = t /\ e[2] = k /\ e[3] > 0)
ReadsOf(t, k) == SelectSeq(wire, LAMBDA e : e[1] = t /\ e[2] = k /\ e[3] = 0)

\* call k of thread t has left the with block
Finished(t, k) == k < calls[t] \/ tpc[t] \in {"unlock", "idle"}

\* C19: every call of Interface.send writes its request frame exactly once
\* and reads exactly once; and when what the line delivered was not a valid
\* frame (nothing, a cut frame, a bad header, a bad checksum) the call
\* returns None.
C19_NoRetry ==
    \A t \in Threads : \A k \in 1 .. calls[t] :
        LET frame == package(ThreadRequest(t)).val
        IN  /\ Len(WritesOf(t, k)) <= Len(frame)
            /\ Len(ReadsOf(t, k)) <= 1
            /\ Finished(t, k) =>
                  /\ [i \in 1 .. Len(frame) |-> WritesOf(t, k)[i][4]] = frame
                  /\ Len(WritesOf(t, k)) = Len(frame)
                  /\ Len(ReadsOf(t, k)) = 1
            /\ (Finished(t, k) /\ k = calls[t] /\ read(tresp[t]).result.tag # "Message") =>
                  tresult[t] = PyNone

(***************************************************************************)
(* Dobot.wait() against a device that answers every query and executes     *)
(* every queued instruction, at any speed relative to the client.          *)
(***************************************************************************)

LiveClient ==
    \/ WaitNoop
    \/ WaitBaseline(Some(devCur))
    \/ WaitPoll(Some(devCur))
    \/ WaitSleep

NextLive ==
    \/ Enqueue /\ UNCHANGED <<sendVars, codecVars, readVars, facadeVars, ifaceVars, lineVars>>
    \/ CallWait(None) /\ UNCHANGED <<sendVars, codecVars, readVars, facadeVars, ifaceVars, lineVars>>
    \/ WaitNoop /\ UNCHANGED <<sendVars, codecVars, readVars, facadeVars, ifaceVars, lineVars>>
    \/ WaitBaseline(Some(devCur)) /\ UNCHANGED <<sendVars, codecVars, readVars, facadeVars, ifaceVars, lineVars>>
    \/ WaitPoll(Some(devCur)) /\ UNCHANGED <<sendVars, codecVars, readVars, facadeVars, ifaceVars, lineVars>>
    \/ WaitSleep /\ UNCHANGED <<sendVars, codecVars, readVars, facadeVars, ifaceVars, lineVars>>
    \/ DeviceAdvance /\ UNCHANGED <<sendVars, codecVars, readVars, facadeVars, ifaceVars, lineVars>>

\* the calling thread keeps running, and the device executes what is queued
SpecLive ==
    /\ InitWait
    /\ [][NextLive]_vars
    /\ WF_vars(LiveClient /\ UNCHANGED <<sendVars, codecVars, readVars, facadeVars, ifaceVars, lineVars>>)
    /\ WF_vars(DeviceAdvance /\ UNCHANGED <<sendVars, codecVars, readVars, facadeVars, ifaceVars, lineVars>>)

\* C21: a call wait() with no queue_index, once made, eventually returns,
\* when the device answers every query and eventually executes every queued
\* instruction, whatever the timing of the device relative to the client.
C21_WaitEventuallyReturns ==
    (pc = "noop" /\ arg = None) ~> (pc = "returned")

(***************************************************************************)
(* Dobot.__init__ on a device that may have instructions queued, and the   *)
(* state of the queue at each frame the facade sends.                      *)
(***************************************************************************)

\* the command ids of the parameter settings of dobot.py lines 50-64, in
\* order; each method is called without its queue argument, which is True
InitParamIds == <<82, 80, 81, 83, 87, 70, 71, 72, 90>>
\* interface.get_alarms(): Message(..., 20, False, False, [])
AlarmsFrame == <<20, Control(FALSE, FALSE)>>
\* interface.clear_alarms(): Message(..., 21, True, False, [])
ClearAlarmsFrame == <<21, Control(TRUE, FALSE)>>

\* Dobot(port): __init__ begins
CallInit ==
    /\ pc = "idle" /\ fop = "none"
    /\ fop' = "init"
    /\ mark' = Len(sent)
    /\ pc' = "istop"
    /\ UNCHANGED <<arg, queue_index, index, polls, sent, devCur, devLast, lastBefore, simN, simV>>
    /\ UNCHANGED <<force_close, serial_open, devRunning, npoints, relative, wantWait, rets>>

\* line 46: self.interface.stop_queue(True)
InitStop ==
    /\ pc = "istop"
    /\ sent' = Append(sent, StopFrame(TRUE))
    /\ devRunning' = FALSE
    /\ pc' = "iclear"
    /\ UNCHANGED <<arg, queue_index, index, polls, devCur, devLast, lastBefore, simN, simV>>
    /\ UNCHANGED <<fop, force_close, serial_open, npoints, relative, wantWait, rets, mark>>

\* line 47: self.interface.clear_queue()
InitClear ==
    /\ pc = "iclear"
    /\ sent' = Append(sent, ClearFrame)
    /\ pc' = "istart"
    /\ UNCHANGED <<arg, queue_index, index, polls, devCur, devLast, lastBefore, simN, simV>>
    /\ UNCHANGED facadeVars

\* an __init__ that leaves the queue stopped
InitStart_skip ==
    /\ pc = "istart"
    /\ pc' = "iparams"
    /\ UNCHANGED <<arg, queue_index, index, polls, sent, devCur, devLast, lastBefore, simN, simV>>
    /\ UNCHANGED facadeVars

\* line 48: self.interface.start_queue()
InitStart ==
    /\ pc = "istart"
    /\ sent' = Append(sent, StartFrame)
    /\ devRunning' = TRUE
    /\ pc' = "iparams"
    /\ UNCHANGED <<arg, queue_index, index, polls, devCur, devLast, lastBefore, simN, simV>>
    /\ UNCHANGED <<fop, force_close, serial_open, npoints, relative, wantWait, rets, mark>>

\* the queued-write frames sent since the call
QueuedSinceCall == SelectSeq(SinceCall, LAMBDA frame : frame[2] = Control(TRUE, TRUE))

\* lines 50-64: the next parameter setting, a queued write the device appends
InitParam ==
    /\ pc = "iparams"
    /\ LET i == Len(QueuedSinceCall) + 1
       IN  /\ sent' = Append(sent, <<InitParamIds[i], Control(TRUE, TRUE)>>)
           /\ pc' = IF i = Len(InitParamIds) THEN "ialarms" ELSE "iparams"
    /\ devLast' = devLast + 1
    /\ UNCHANGED <<arg, queue_index, index, polls, devCur, lastBefore, simN, simV>>
    /\ UNCHANGED facadeVars

\* lines 66-68: alarms = self.interface.get_alarms(); if alarms: the answer
\* is a non-empty list, or it is empty or None
InitAlarms(alarms) ==
    /\ pc = "ialarms"
    /\ sent' = Append(sent, AlarmsFrame)
    /\ pc' = IF alarms THEN "iclearalarms" ELSE "constructed"
    /\ UNCHANGED <<arg, queue_index, index, polls, devCur, devLast, lastBefore, simN, simV>>
    /\ UNCHANGED facadeVars

\* line 70: self.interface.clear_alarms()
InitClearAlarms ==
    /\ pc = "iclearalarms"
    /\ sent' = Append(sent, ClearAlarmsFrame)
    /\ pc' = "constructed"
    /\ UNCHANGED <<arg, queue_index, index, polls, devCur, devLast, lastBefore, simN, simV>>
    /\ UNCHANGED facadeVars

NextQueue ==
    \/ NextFacade
    \/ CallInit /\ UNCHANGED <<sendVars, codecVars, readVars, ifaceVars, lineVars>>
    \/ InitStop /\ UNCHANGED <<sendVars, codecVars, readVars, ifaceVars, lineVars>>
    \/ InitClear /\ UNCHANGED <<sendVars, codecVars, readVars, ifaceVars, lineVars>>
    \/ InitStart /\ UNCHANGED <<sendVars, codecVars, readVars, ifaceVars, lineVars>>
    \/ InitParam /\ UNCHANGED <<sendVars, codecVars, readVars, ifaceVars, lineVars>>
    \/ (\E alarms \in BOOLEAN : InitAlarms(alarms)) /\ UNCHANGED <<sendVars, codecVars, readVars, ifaceVars, lineVars>>
    \/ InitClearAlarms /\ UNCHANGED <<sendVars, codecVars, readVars, ifaceVars, lineVars>>

SpecQueue == InitFacade /\ [][NextQueue]_vars

\* the position of the last start or stop frame before position i of the
\* record, 0 when there is none
LastQueueControl(i) ==
    LET ctl == {j \in 1 .. i - 1 :
                   sent[j][1] \in {IdStartQueue, IdStopQueue, IdForceStopQueue}}
    IN  IF ctl = {} THEN 0 ELSE CHOOSE j \in ctl : \A k \in ctl : k <= j

\* frame i of the record is sent while the queue is stopped
SentWhileStopped(i) ==
    /\ LastQueueControl(i) > 0
    /\ sent[LastQueueControl(i)][1] \in {IdStopQueue, IdForceStopQueue}

\* C22 as stated: no queued-write frame (control byte 3) is sent between a
\* stop frame (241 or 242) and the next start frame (240).
C22_NoEnqueueWhileStopped_Original ==
    \A i \in 1 .. Len(sent) :
        (sent[i][2] = Control(TRUE, TRUE)) => ~SentWhileStopped(i)

\* C22: the only queued-write frames sent between a stop frame and the next
\* start frame are the continuous-trajectory frames (id 91) of follow_path
\* and follow_path_relative; __init__, wait and close send none there.
C22_NoEnqueueWhileStopped ==
    \A i \in 1 .. Len(sent) :
        (sent[i][2] = Control(TRUE, TRUE) /\ SentWhileStopped(i)) =>
            /\ fop = "follow_path"
            /\ i > mark
            /\ sent[i][1] = IdCT

\* __init__ has run to its end: its nine queued parameter settings all came
\* after its start frame
C22_Witness ==
    /\ fop = "init" /\ pc = "constructed"
    /\ Len(QueuedSinceCall) = Len(InitParamIds)
    /\ SinceCall[3] = StartFrame
    /\ \A i \in mark + 4 .. mark + 12 :
          sent[i][2] = Control(TRUE, TRUE) /\ ~SentWhileStopped(i)

\* C23: before every clear-queue frame (245) the most recent start or stop
\* frame is a stop frame (241 or 242), and no queued-write frame lies between
\* that stop frame and the clear frame.
C23_ClearWhileStopped ==
    \A i \in 1 .. Len(sent) :
        (sent[i][1] = IdClearQueue) =>
            /\ SentWhileStopped(i)
            /\ \A k \in LastQueueControl(i) + 1 .. i - 1 : sent[k][2] # Control(TRUE, TRUE)

\* a non-forced close has finished: the no-op of its wait was a queued write,
\* then came 241 and right after it 245
C23_Witness ==
    /\ fop = "close" /\ ~force_close /\ pc = "closed"
    /\ \E i \in mark + 1 .. Len(sent) : sent[i] = NoopFrame
    /\ sent[Len(sent)] = ClearFrame
    /\ sent[Len(sent) - 1] = StopFrame(FALSE)

\* C24: Dobot.wait never raises, whichever of its queries go unanswered, and
\* it returns only on a query answered with an index greater than the target.
C24_WaitNeverRaises ==
    /\ pc # "raised"
    /\ (pc = "returned") =>
          (index # None /\ queue_index # None /\ index[1] > queue_index[1])

(***************************************************************************)
(* Interface.send when the serial port can fail while writing.             *)
(***************************************************************************)

\* lines 44-45: self.serial.write or self.serial.flush raises (the port was
\* unplugged, the write timed out); the exception leaves the with block
SendFail(t) ==
    /\ tpc[t] \in {"write", "flush"}
    /\ tresult' = [tresult EXCEPT ![t] = [tag |-> "SerialException"]]
    /\ tpc' = [tpc EXCEPT ![t] = "unlock"]
    /\ UNCHANGED <<lockOwner, treq, woff, calls, wire, lockOrder, tresp>>

NextSendFail ==
    \/ NextSend
    \/ (\E t \in Threads : SendFail(t)) /\ UNCHANGED <<waitVars, codecVars, readVars, facadeVars, ifaceVars, lineVars>>

SpecSendFail == InitSend /\ [][NextSendFail]_vars

\* C25: a thread that is not inside the with block of send does not hold the
\* lock, however its last send ended; so when no thread is inside, the lock
\* is free and a thread waiting for it can take it.
C25_LockReleased ==
    /\ \A t \in Threads : (tpc[t] \in {"idle", "lock"}) => lockOwner # t
    /\ (lockOwner # 0) => tpc[lockOwner] \in {"write", "flush", "read", "unlock"}
    /\ (\A t \in Threads : tpc[t] \in {"idle", "lock"}) => lockOwner = 0

\* the send of thread 1 ended with an exception, raised by the write or by
\* the read, and thread 2, which took the lock after it, is writing
C25_Witness ==
    /\ tpc[1] = "idle" /\ calls[1] = 1
    /\ tresult[1].tag \in {"SerialException", "IndexError"}
    /\ Len(lockOrder) = 2 /\ lockOrder[1][1] = 1 /\ lockOrder[2][1] = 2
    /\ lockOwner = 2 /\ tpc[2] = "write"

(***************************************************************************)
(* Interface.send called several times in a row by one thread, on a line   *)
(* whose answers may arrive after the read of their exchange timed out.    *)
(* The serial port keeps what arrives until it is read.                    *)
(***************************************************************************)

\* the requests made, as <<command id, rw, is_queued>>:
\* get_device_serial_number, wait(0), get_current_queue_index
LineRequests == {<<0, FALSE, FALSE>>, <<IdWait, TRUE, TRUE>>, <<IdQueueIndex, TRUE, FALSE>>}

\* the parameter bytes of an answer
AnswerParams == {<<>>, <<1>>, <<Magic, Magic>>}

\* the device's answer to a request: the same command id and control bits
AnswerFrame(req, raw) ==
    package(MessageIn(<<Magic, Magic>>, InitLength, req[1], req[2], req[3], raw)).val

RECURSIVE Concat(_)
Concat(frames) == IF frames = <<>> THEN <<>> ELSE Head(frames) \o Concat(Tail(frames))

\* lines 44-45: the request is written; the device sends its answer
LineSend(req, raw) ==
    /\ lpc = "idle"
    /\ Len(rseen) < MaxSends
    /\ lreq' = req
    /\ inflight' = Append(inflight, AnswerFrame(req, raw))
    /\ lpc' = "read"
    /\ UNCHANGED <<rframes, rseen, stream>>

\* the oldest answer on the way reaches the port's input buffer
LineArrive ==
    /\ inflight # <<>>
    /\ stream' = stream \o Head(inflight)
    /\ rframes' = Append(rframes, Head(inflight))
    /\ inflight' = Tail(inflight)
    /\ UNCHANGED <<rseen, lreq, lpc>>

\* lines 46-51: Message.read on what has arrived (nothing: the read times
\* out), and the value send returns
LineRead ==
    /\ lpc = "read"
    /\ LET r == read(stream)
       IN  /\ rseen' = Append(rseen, [req |-> lreq,
                                      frame |-> IF rframes = <<>> THEN <<>> ELSE Head(rframes),
                                      result |-> r.result,
                                      ret |-> SendResult(r.result)])
           /\ stream' = r.rest
    /\ rframes' = IF rframes = <<>> THEN <<>> ELSE Tail(rframes)
    /\ lpc' = "idle"
    /\ UNCHANGED <<inflight, lreq>>

InitLine ==
    /\ WaitOff /\ SendOff /\ CodecOff /\ FacadeOff /\ IfaceOff
    /\ stream = <<>> /\ rpc = "off" /\ rframe = <<>> /\ rcut = 0
    /\ rresult = PyNone /\ sendret = PyNone
    /\ inflight = <<>> /\ rframes = <<>> /\ rseen = <<>> /\ lreq = <<>> /\ lpc = "idle"

NextLine ==
    \/ (\E req \in LineRequests, raw \in AnswerParams : LineSend(req, raw))
          /\ UNCHANGED <<rpc, rframe, rcut, rresult, sendret>>
          /\ UNCHANGED <<waitVars, sendVars, codecVars, facadeVars, ifaceVars>>
    \/ LineArrive
          /\ UNCHANGED <<rpc, rframe, rcut, rresult, sendret>>
          /\ UNCHANGED <<waitVars, sendVars, codecVars, facadeVars, ifaceVars>>
    \/ LineRead
          /\ UNCHANGED <<rpc, rframe, rcut, rresult, sendret>>
          /\ UNCHANGED <<waitVars, sendVars, codecVars, facadeVars, ifaceVars>>

SpecLine == InitLine /\ [][NextLine]_vars

\* C26: every read that finds a frame produced by package at the head of
\* what has arrived decodes that frame and takes exactly its bytes: what is
\* left on the line is always the frames that arrived and were not read,
\* whole and in order.
C26_ReadConsumesFrame ==
    /\ stream = Concat(rframes)
    /\ \A i \in 1 .. Len(rseen) :
          LET e == rseen[i]
          IN  (e.frame # <<>>) =>
                 /\ e.result.tag = "Message"
                 /\ e.result.msg.id = e.frame[4]
                 /\ e.result.msg.raw_params = Slice(e.frame, 5, Len(e.frame) - 1)
                 /\ e.result.msg.length = Len(e.frame) - 4

\* two answers lay on the line back to back, the first with parameter bytes
\* that look like a header, and two successive reads decoded them in order
C26_Witness ==
    /\ Len(rseen) = 3
    /\ rseen[1].frame = <<>>
    /\ rseen[2].frame = AnswerFrame(rseen[1].req, <<Magic, Magic>>)
    /\ rseen[3].frame = AnswerFrame(rseen[2].req, <<1>>)
    /\ rseen[2].result.tag = "Message" /\ rseen[3].result.tag = "Message"
    /\ rframes = <<AnswerFrame(rseen[3].req, <<>>)>>
    /\ stream = rframes[1]

\* C28: whenever send returned parameters decoded from a response frame, the
\* frame's command id was the command id of the request that send wrote.
C28_ResponseMatchesRequest ==
    \A i \in 1 .. Len(rseen) :
        (rseen[i].ret.tag = "value" /\ rseen[i].ret.val.tag = "decoded") =>
            rseen[i].result.msg.id = rseen[i].req[1]

\* C27: the control byte of every frame an Interface method writes is 0, 1
\* or 3: bits 2 to 7 are zero and the queued bit is never set without the
\* write bit, whichever boolean the caller passes as queue.
C27_ControlByte ==
    (cstage = "packaged" /\ imethod # <<>>) =>
        /\ packed.tag = "bytes"
        /\ packed.val[5] \in {0, 1, 3}
        /\ packed.val[5] \div 4 = 0
        /\ ((packed.val[5] \div 2) % 2 = 1) => (packed.val[5] % 2 = 1)

\* set_homing_parameters called with queue=True wrote control byte 3
C27_Witness ==
    /\ cstage = "packaged"
    /\ imethod # <<>> /\ imethod[1] = "set_homing_parameters"
    /\ mobj.is_queued
    /\ packed.val[5] = 3

C30_QueuedReadNoCodec ==
    (cstage = "parsed" /\ corrupt = None /\ packed.val[5] = Control(FALSE, TRUE)
        /\ parsers(packed.val[4]) # <<>>) =>
        /\ parsed.tag = "Message"
        /\ ~parsed.msg.rw /\ parsed.msg.is_queued
        /\ parsed.msg.params = PyEmpty
        /\ parsed.msg.raw_params = Slice(packed.val, 5, Len(packed.val) - 1)

\* a frame with control byte 2 and two parameter bytes, for a command that
\* registers a Read codec, was parsed: params is the empty list
C30_Witness ==
    /\ cstage = "parsed" /\ corrupt = None
    /\ packed.val[4] = IdPTP /\ packed.val[5] = 2
    /\ parsers(IdPTP)[1] = "Read"
    /\ parsed.tag = "Message"
    /\ parsed.msg.raw_params = <<1, 255>>
    /\ parsed.msg.params = PyEmpty

====
